---- MODULE Spec2Model ----
(***************************************************************************)
(* Weekly YouTube podcast chart collector: the Timeline store             *)
(* (complete_podcast_timeline.json), the live merge update_json_file, the *)
(* date range resolver, the cross-source merges and the corrective passes. *)
(***************************************************************************)
EXTENDS Integers, Sequences, FiniteSets, TLC

VARIABLES
    store,      \* complete_podcast_timeline.json: [status, data]
    req,        \* the run under way: operation, captured page, file system
    last,       \* the last run's result: log line, return value, exit status
    pc,         \* per invocation of update_json_file: where it stands
    loc,        \* per invocation: page, existing_data, ok, ret, dirty
    merge,      \* a cross-source merge: its two input lists and its result
    call        \* a call of a converter, analyzer or parser: input and result

vars == <<store, req, last, pc, loc, merge, call>>

(***************************************************************************)
(* Bounds of the model.                                                    *)
(***************************************************************************)
\* the largest number of ytmc-entry-row rows a captured page holds
MaxRows == 91

\* the largest number of weeks the store holds before a further run starts
MaxWeeks == 3

\* the number of entries of one week in a source file
MaxSourceRows == 2

\* the longest input list of a cross-source merge taken on its own
MaxListLen == 2

\* the years the calendar of the model covers
FirstYear == 2024
LastYear == 2027

\* the number of entries a failing dump leaves in the file
DumpCut == 1

\* the largest number of rows of the collected CSV file
MaxCsvRows == 3

\* the largest number of records of a parsed page that differ from the
\* plain record
MaxRecords == 2

\* the number of responses the API server has ready for one call
MaxResponses == 5

(***************************************************************************)
(* The calendar: datetime's proleptic Gregorian ordinals.                  *)
(***************************************************************************)
IsLeap(y) == (y % 4 = 0) /\ ((y % 100 # 0) \/ (y % 400 = 0))

DaysInMonth(y, m) ==
    IF m = 2 THEN (IF IsLeap(y) THEN 29 ELSE 28)
    ELSE IF m \in {4, 6, 9, 11} THEN 30 ELSE 31

DaysBeforeYear(y) ==
    (y - 1) * 365 + ((y - 1) \div 4) - ((y - 1) \div 100) + ((y - 1) \div 400)

RECURSIVE DaysBeforeMonth(_, _)
DaysBeforeMonth(y, m) ==
    IF m <= 1 THEN 0 ELSE DaysBeforeMonth(y, m - 1) + DaysInMonth(y, m - 1)

\* datetime(y, m, d).toordinal()
ToOrdinal(y, m, d) == DaysBeforeYear(y) + DaysBeforeMonth(y, m) + d

\* datetime.fromordinal(n), as [y, m, d]
FromOrdinal(n) ==
    LET y == CHOOSE yy \in FirstYear..LastYear :
                 DaysBeforeYear(yy) < n /\ n <= DaysBeforeYear(yy + 1)
        r == n - DaysBeforeYear(y)
        m == CHOOSE mm \in 1..12 :
                 DaysBeforeMonth(y, mm) < r
                 /\ r <= DaysBeforeMonth(y, mm) + DaysInMonth(y, mm)
    IN  [y |-> y, m |-> m, d |-> r - DaysBeforeMonth(y, m)]

\* a weekday that counts from Sunday
WeekdayFromSunday(n) == n % 7

\* datetime.weekday(): Monday is 0
Weekday(n) == (n + 6) % 7

\* datetime.min, the sort key of a Chart Date that does not parse
DatetimeMin == ToOrdinal(1, 1, 1)

(***************************************************************************)
(* Chart Date strings.  A string is kept by its tokens:                    *)
(*   dash   whether it contains " - "                                      *)
(*   sm sd  month and day before the dash (0: no such token)               *)
(*   em ed  month and day after the dash, or of a single date              *)
(*   yr     the year after the comma                                       *)
(* "May 5 - May 11, 2025" is [dash TRUE, 5, 5, 5, 11, 2025]; the raw       *)
(* collection date "June 2, 2025" is [dash FALSE, 0, 0, 6, 2, 2025].       *)
(***************************************************************************)
RangeStr(sm, sd, em, ed, yr) ==
    [dash |-> TRUE, sm |-> sm, sd |-> sd, em |-> em, ed |-> ed, yr |-> yr]

DateStr(m, d, yr) ==
    [dash |-> FALSE, sm |-> 0, sd |-> 0, em |-> m, ed |-> d, yr |-> yr]

\* a line with " - ", a month name and "2025" in it whose second part is
\* no "%b %d, %Y" date
JunkLine == RangeStr(5, 0, 0, 0, 2025)

\* datetime.strptime succeeds on the month, day, year tokens
ValidDate(m, d, yr) ==
    /\ m \in 1..12
    /\ yr \in FirstYear..LastYear
    /\ d >= 1 /\ d <= DaysInMonth(yr, m)

\* get_current_week_date: the most recent Monday, as "%B %d, %Y"
get_current_week_date(today) ==
    LET chart_date == FromOrdinal(today - Weekday(today))
    IN  DateStr(chart_date.m, chart_date.d, chart_date.y)

\* get_week_range: the 7 days ending on date_str; date_str itself when it
\* does not parse
get_week_range(date_str) ==
    IF ~date_str.dash /\ ValidDate(date_str.em, date_str.ed, date_str.yr)
    THEN LET chart_date == ToOrdinal(date_str.yr, date_str.em, date_str.ed)
             start_date == FromOrdinal(chart_date - 6)
             end_date == FromOrdinal(chart_date)
         IN  RangeStr(start_date.m, start_date.d,
                      end_date.m, end_date.d, end_date.y)
    ELSE date_str

(***************************************************************************)
(* Chart entries and the captured page.                                    *)
(***************************************************************************)
Entry(name, rank, chart_date, channel_url, thumbnail_url) ==
    [Name |-> name, Rank |-> rank, ChartDate |-> chart_date,
     ChannelURL |-> channel_url, ThumbnailURL |-> thumbnail_url]

\* actual_week_range = "": no date line was found on the page
NoLine == DateStr(0, 0, 0)

\* the minimum number of entries of a snapshot that is merged
MinEntries == 90

\* the test a line of the page text has to pass: ' - ' in line and
\* '2025' in line and the name of a month in line
MatchesDatePattern(line) ==
    /\ line.dash
    /\ line.yr = 2025
    /\ line.sm \in 1..12 \/ line.em \in 1..12

\* the chart week of a capture: the line of the page text that passes
\* the test when there is one, else the computed week of today
actual_week_range(page) ==
    IF page.date_line # NoLine /\ MatchesDatePattern(page.date_line)
    THEN page.date_line
    ELSE get_week_range(get_current_week_date(page.today))

\* scrape_current_charts: one entry per ytmc-entry-row, ranked by position;
\* the empty list when the capture throws (wait_for_selector times out on a
\* page without rows)
podcast_data(rows, week) ==
    [i \in 1..rows |-> Entry("Show " \o ToString(i), ToString(i), week, "", "")]

\* a capture that goes on after the exception
CaptureDespiteError(page) ==
    IF page.rows = 0 THEN <<>>
    ELSE podcast_data(page.rows, actual_week_range(page))

scrape_current_charts(page) ==
    IF page.error \/ page.rows = 0
    THEN <<>>
    ELSE podcast_data(page.rows, actual_week_range(page))

(***************************************************************************)
(* update_json_file.                                                       *)
(***************************************************************************)
\* the sort key of an entry: the end date of its week range, datetime.min
\* when the Chart Date has no " - " or its second part does not parse
parse_chart_date(entry) ==
    LET chart_date_str == entry.ChartDate
    IN  IF chart_date_str.dash
        THEN IF ValidDate(chart_date_str.em, chart_date_str.ed, chart_date_str.yr)
             THEN ToOrdinal(chart_date_str.yr, chart_date_str.em, chart_date_str.ed)
             ELSE DatetimeMin
        ELSE DatetimeMin

SetMin(S) == CHOOSE x \in S : \A y \in S : x <= y

\* a duplicate check that looks at the last stored entry only
LastWeekOnly(existing_data) ==
    IF existing_data = <<>> THEN {}
    ELSE {existing_data[Len(existing_data)].ChartDate}

\* set(entry.get('Chart Date', '') for entry in existing_data)
existing_weeks(existing_data) ==
    {existing_data[i].ChartDate : i \in 1..Len(existing_data)}

\* the key list.sort computes for the entries of one Chart Date
KeyOfWeek(week) == parse_chart_date(Entry("", "", week, "", ""))

\* list.sort(key=parse_chart_date): ascending by key; entries of equal key
\* keep their order (the sort is stable)
RECURSIVE SortedByKeys(_, _, _)
SortedByKeys(data, weeks, keys) ==
    IF keys = {} THEN <<>>
    ELSE LET k == SetMin(keys)
             ws == {w \in weeks : KeyOfWeek(w) = k}
         IN  SelectSeq(data, LAMBDA e : e.ChartDate \in ws)
             \o SortedByKeys(data, weeks, keys \ {k})

\* a sort that takes the entries of equal key from the end of the list
SortFromEnd(data, weeks) ==
    SortedByKeys([i \in 1..Len(data) |-> data[Len(data) + 1 - i]],
                 weeks, {KeyOfWeek(w) : w \in weeks})

SortByWeeks(data, weeks) ==
    SortedByKeys(data, weeks, {KeyOfWeek(w) : w \in weeks})

\* the list left as it is
LeftUnsorted(data) == data

SortChronologically(data) ==
    SortByWeeks(data, {data[i].ChartDate : i \in 1..Len(data)})

\* the week the duplicate check looks up
new_week(new_data) == new_data[1].ChartDate

\* a gate that asks for more than the minimum
MoreThanMinimum(new_data) == Len(new_data) > MinEntries

\* the snapshot has enough entries to be merged
EnoughEntries(new_data) == ~(Len(new_data) < MinEntries)

\* a merge that extends the list twice
ExtendedTwice(existing_data, new_data) ==
    SortChronologically(existing_data \o new_data \o new_data)

\* a merge that keeps the snapshot only
SnapshotOnly(existing_data, new_data) == SortChronologically(new_data)

\* existing_data.extend(new_data); existing_data.sort(...)
MergedData(existing_data, new_data) ==
    SortChronologically(existing_data \o new_data)

\* the content of the store file
Missing == [status |-> "missing", data |-> <<>>]
Stored(data) == [status |-> "ok", data |-> data]
Partial(data) == [status |-> "partial", data |-> data]

\* what json.load of the store gives: [ok, data]; a file that is not
\* whole JSON raises
LoadStore(st, io) ==
    IF st.status = "missing" THEN [ok |-> TRUE, data |-> <<>>]
    ELSE IF st.status = "partial" \/ io = "read_fails"
         THEN [ok |-> FALSE, data |-> <<>>]
         ELSE [ok |-> TRUE, data |-> st.data]

\* whether update_json_file goes on to write, given what it loaded
Accepts(existing_data, new_data) ==
    /\ new_data # <<>>
    /\ new_week(new_data) \notin existing_weeks(existing_data)
    /\ EnoughEntries(new_data)

\* the store after open(..., 'w') and json.dump of data under io:
\* open truncates the file, and a dump that fails leaves the part written
WriteStore(st, data, io, cut) ==
    IF io = "open_fails" THEN st
    ELSE IF io = "dump_fails" THEN Partial(SubSeq(data, 1, cut))
    ELSE Stored(data)

\* update_json_file as a whole: the store after it, its return value and
\* the line it logs
update_json_file(st, new_data, io, cut) ==
    LET loaded == LoadStore(st, io)
    IN  IF ~loaded.ok
        THEN [store |-> st, ret |-> FALSE, log |-> "error"]
        ELSE IF new_data = <<>>
        THEN [store |-> st, ret |-> FALSE, log |-> "no new data"]
        ELSE IF new_week(new_data) \in existing_weeks(loaded.data)
        THEN [store |-> st, ret |-> FALSE, log |-> "already exists"]
        ELSE IF ~EnoughEntries(new_data)
        THEN [store |-> st, ret |-> FALSE, log |-> "too few"]
        ELSE IF io \in {"open_fails", "dump_fails"}
        THEN [store |-> WriteStore(st, MergedData(loaded.data, new_data), io, cut),
              ret |-> FALSE, log |-> "error"]
        ELSE [store |-> WriteStore(st, MergedData(loaded.data, new_data), io, cut),
              ret |-> TRUE, log |-> "added"]

(***************************************************************************)
(* The text of a Chart Date, as the dedup key and the tables spell it.     *)
(***************************************************************************)
MonthAbbr(m) ==
    IF m \in 1..12
    THEN <<"Jan", "Feb", "Mar", "Apr", "May", "Jun",
           "Jul", "Aug", "Sep", "Oct", "Nov", "Dec">>[m]
    ELSE "Charts"

MonthName(m) ==
    IF m \in 1..12
    THEN <<"January", "February", "March", "April", "May", "June", "July",
           "August", "September", "October", "November", "December">>[m]
    ELSE "Charts"

ChartDateText(cd) ==
    IF cd = NoLine THEN ""
    ELSE IF cd.dash
    THEN MonthAbbr(cd.sm) \o " " \o ToString(cd.sd) \o " - "
         \o MonthAbbr(cd.em) \o " " \o ToString(cd.ed) \o ", " \o ToString(cd.yr)
    ELSE MonthName(cd.em) \o " " \o ToString(cd.ed) \o ", " \o ToString(cd.yr)

(***************************************************************************)
(* The cross-source merges.                                                *)
(***************************************************************************)
\* f"{Name}_{Chart Date}_{Rank}"
EntryKey(entry) ==
    entry.Name \o "_" \o ChartDateText(entry.ChartDate) \o "_" \o entry.Rank

\* the loop over all_data that keeps an entry when its key was not seen
RECURSIVE RemoveDuplicates(_, _, _, _)
RemoveDuplicates(all_data, i, unique_data, seen_entries) ==
    IF i > Len(all_data) THEN unique_data
    ELSE LET key == EntryKey(all_data[i])
         IN  IF key \notin seen_entries
             THEN RemoveDuplicates(all_data, i + 1,
                                   Append(unique_data, all_data[i]),
                                   seen_entries \cup {key})
             ELSE RemoveDuplicates(all_data, i + 1, unique_data, seen_entries)

\* create_complete_timeline.merge_all_data_sources
merge_all_data_sources(wayback_data, corrected_csv_data) ==
    RemoveDuplicates(wayback_data \o corrected_csv_data, 1, <<>>, {})

\* the loop over current_data that appends an entry when its key is new
RECURSIVE AddCurrent(_, _, _, _)
AddCurrent(current_data, i, all_data, existing_entries) ==
    IF i > Len(current_data) THEN all_data
    ELSE LET key == EntryKey(current_data[i])
         IN  IF key \notin existing_entries
             THEN AddCurrent(current_data, i + 1,
                             Append(all_data, current_data[i]),
                             existing_entries \cup {key})
             ELSE AddCurrent(current_data, i + 1, all_data, existing_entries)

\* merge_chart_data.merge_data_sources
merge_data_sources(historical_data, current_data) ==
    AddCurrent(current_data, 1, historical_data,
               {EntryKey(historical_data[i]) : i \in 1..Len(historical_data)})

(***************************************************************************)
(* The corrective passes.                                                  *)
(***************************************************************************)
\* date_fixes of fix_chronological_order
date_fixes_from == RangeStr(5, 26, 6, 1, 2025)
date_fixes_to == RangeStr(5, 30, 6, 5, 2025)

\* problematic_date and better_date of fix_chronological_order_v2
problematic_date == RangeStr(5, 30, 6, 5, 2025)
better_date == RangeStr(6, 2, 6, 8, 2025)

\* a pass that gives every entry the week to
RewriteEveryWeek(data, from, to) ==
    [i \in 1..Len(data) |-> [data[i] EXCEPT !.ChartDate = to]]

\* the loop of a corrective pass: the entries of week from get week to
RewriteWeek(data, from, to) ==
    [i \in 1..Len(data) |->
        IF data[i].ChartDate = from
        THEN [data[i] EXCEPT !.ChartDate = to]
        ELSE data[i]]

fix_chronological_order(data) == RewriteWeek(data, date_fixes_from, date_fixes_to)

fix_chronological_order_v2(data) == RewriteWeek(data, problematic_date, better_date)

(***************************************************************************)
(* The inputs of the model.                                                *)
(***************************************************************************)
\* the numbers of rows of a captured page
RowCounts == {0, MinEntries - 1, MinEntries, MaxRows}

\* the line under the chart title in the text of a captured page
PageLines ==
    {RangeStr(5, 23, 5, 29, 2025), RangeStr(5, 26, 6, 1, 2025), JunkLine,
     RangeStr(1, 5, 1, 11, 2026)}

\* the lines that are week ranges of 2025
PageLines2025 == {line \in PageLines : line.yr = 2025 /\ line.em \in 1..12}

\* a captured page: its rows, the date line found on it, the day of the
\* capture, and whether the capture throws
Pages ==
    [rows : RowCounts \ {0}, date_line : PageLines2025,
     today : {ToOrdinal(2025, 5, 14)}, error : {FALSE}]
    \cup [rows : {MinEntries}, date_line : PageLines \ PageLines2025,
          today : {ToOrdinal(2025, 5, 14)}, error : {FALSE}]
    \cup [rows : RowCounts, date_line : {NoLine},
          today : {ToOrdinal(2025, 5, 14), ToOrdinal(2026, 1, 7)},
          error : {FALSE}]
    \cup [rows : {MaxRows}, date_line : {NoLine},
          today : {ToOrdinal(2025, 5, 14)}, error : {TRUE}]

\* what the file system does to one call
IOs == {"ok", "read_fails", "open_fails", "dump_fails"}


Procs == {1, 2}

NoPage == [rows |-> 0, date_line |-> NoLine, today |-> 0, error |-> FALSE]
NoReq == [op |-> "none", page |-> NoPage, io |-> "ok", force |-> FALSE]
NoResult == [op |-> "none", log |-> "none", ret |-> FALSE, exit |-> 0]
IdleLoc ==
    [page |-> NoPage, existing_data |-> <<>>, ok |-> FALSE,
     ret |-> FALSE, dirty |-> FALSE]
NoMerge == [a |-> <<>>, b |-> <<>>, op |-> "none", out |-> <<>>]
NoCall == [op |-> "none", arg |-> <<>>, out |-> <<>>]

\* the number of distinct weeks in the store
NumWeeks == Cardinality({store.data[i].ChartDate : i \in 1..Len(store.data)})

(***************************************************************************)
(* The collector run one call at a time.                                   *)
(***************************************************************************)
Init ==
    /\ store = Missing
    /\ req = NoReq
    /\ last = NoResult
    /\ pc = [p \in Procs |-> "idle"]
    /\ loc = [p \in Procs |-> IdleLoc]
    /\ merge = NoMerge
    /\ call = NoCall

\* no run is under way (and the store is within the bound of the model)
CanStart ==
    /\ req = NoReq
    /\ NumWeeks < MaxWeeks
    /\ Len(store.data) <= (MaxWeeks - 1) * MaxRows

\* a run starts: the page the capture will see and what the file system
\* will do are fixed.  force is the caller's wish to have a snapshot
\* merged whatever its size; update_json_file takes new_data and nothing
\* else, and main takes nothing, so no step reads it
Start(op, page, io, force) ==
    /\ req' = [op |-> op, page |-> page, io |-> io, force |-> force]
    /\ last' = NoResult
    /\ UNCHANGED <<store, pc, loc, merge, call>>

\* a direct call of update_json_file with the entries of a capture
UpdateJsonFile ==
    /\ req.op = "update"
    /\ \E r \in {update_json_file(store, scrape_current_charts(req.page),
                                 req.io, DumpCut)} :
           /\ store' = r.store
           /\ last' = [op |-> "update", log |-> r.log, ret |-> r.ret, exit |-> 0]
    /\ req' = NoReq
    /\ UNCHANGED <<pc, loc, merge, call>>

\* main: scrape, then update the store; exit(1) when nothing was scraped
Main ==
    /\ req.op = "main"
    /\ LET new_data == scrape_current_charts(req.page)
       IN  IF new_data # <<>>
           THEN \E r \in {update_json_file(store, new_data, req.io, DumpCut)} :
                    /\ store' = r.store
                    /\ last' = [op |-> "main", log |-> r.log,
                                ret |-> r.ret, exit |-> 0]
           ELSE /\ last' = [op |-> "main", log |-> "failed to collect",
                            ret |-> FALSE, exit |-> 1]
                /\ store' = store
    /\ req' = NoReq
    /\ UNCHANGED <<pc, loc, merge, call>>

Next ==
    \/ /\ CanStart
       /\ \E op \in {"update", "main"}, page \in Pages, io \in IOs,
              force \in BOOLEAN :
              (op = "main" => ~force) /\ Start(op, page, io, force)
    \/ UpdateJsonFile
    \/ Main

Spec == Init /\ [][Next]_vars

(***************************************************************************)
(* The Timeline under every operation that writes it: live merges, the     *)
(* complete-timeline creator and the corrective passes.                    *)
(***************************************************************************)
\* the entries of one week in a source file
SourceRows(source, rows, week) ==
    [i \in 1..rows |->
        Entry(source \o " " \o ToString(i), ToString(i), week, "", "")]

\* wayback_historical_data.json
WaybackFiles ==
    {<<>>,
     SourceRows("Wayback", MaxSourceRows, RangeStr(5, 5, 5, 11, 2025)),
     SourceRows("Wayback", MaxSourceRows, RangeStr(5, 26, 6, 1, 2025))}

\* corrected_csv_data.json
CsvFiles ==
    {<<>>,
     SourceRows("Csv", MaxSourceRows, RangeStr(5, 26, 6, 1, 2025))
     \o SourceRows("Csv", MaxSourceRows, RangeStr(5, 23, 5, 29, 2025))}

\* the captures of the live collector in this specification
TimelinePages == {page \in Pages : page.rows = MinEntries /\ ~page.error}

\* create_complete_timeline.main: merge the sources and save the result
\* over the store; nothing is saved when the merge is empty
CreateCompleteTimeline(wayback_data, corrected_csv_data) ==
    /\ req = NoReq
    /\ \E complete_data \in {merge_all_data_sources(wayback_data, corrected_csv_data)} :
          IF complete_data = <<>>
          THEN /\ store' = store
               /\ last' = [op |-> "create", log |-> "no data", ret |-> FALSE, exit |-> 0]
          ELSE /\ store' = Stored(complete_data)
               /\ last' = [op |-> "create", log |-> "saved", ret |-> TRUE, exit |-> 0]
    /\ UNCHANGED <<req, pc, loc, merge, call>>

\* a corrective pass over the store: load, rewrite the week, save; the
\* pass ends in an exception when the store cannot be loaded
CorrectivePass(op, from, to) ==
    /\ req = NoReq
    /\ IF store.status = "ok"
       THEN /\ store' = Stored(RewriteWeek(store.data, from, to))
            /\ last' = [op |-> op, log |-> "corrected", ret |-> TRUE, exit |-> 0]
       ELSE /\ store' = store
            /\ last' = [op |-> op, log |-> "error", ret |-> FALSE, exit |-> 1]
    /\ UNCHANGED <<req, pc, loc, merge, call>>

FixChronologicalOrder == CorrectivePass("fix", date_fixes_from, date_fixes_to)

FixChronologicalOrderV2 == CorrectivePass("fix_v2", problematic_date, better_date)

NextTimeline ==
    \/ /\ CanStart
       /\ \E page \in TimelinePages : Start("main", page, "ok", FALSE)
    \/ Main
    \/ \E w \in WaybackFiles, c \in CsvFiles : CreateCompleteTimeline(w, c)
    \/ FixChronologicalOrder
    \/ FixChronologicalOrderV2

SpecTimeline == Init /\ [][NextTimeline]_vars

(***************************************************************************)
(* The cross-source merges on their own: any two bounded input lists.      *)
(***************************************************************************)
\* the entries the input lists are made of
MergeEntries ==
    {Entry(name, rank, week, "", "") :
        name \in {"Show A", "Show B"}, rank \in {"1", "2"},
        week \in {RangeStr(5, 5, 5, 11, 2025), RangeStr(5, 12, 5, 18, 2025)}}

RECURSIVE ListsUpTo(_)
ListsUpTo(n) ==
    IF n = 0 THEN {<<>>}
    ELSE LET shorter == ListsUpTo(n - 1)
         IN  shorter \cup {Append(l, e) : l \in shorter, e \in MergeEntries}

\* two entries without Chart Date whose Name or Rank holds a "_"
UnderscoreEntries ==
    <<Entry("Show_", "1", NoLine, "", ""), Entry("Show", "_1", NoLine, "", "")>>

\* the input lists: those of the plain entries, and those of the two
\* entries with a "_"
SourceLists ==
    ListsUpTo(MaxListLen)
    \cup {<<UnderscoreEntries[1]>>, <<UnderscoreEntries[2]>>,
          UnderscoreEntries,
          <<UnderscoreEntries[2], UnderscoreEntries[1]>>}

InitMerge ==
    /\ store = Missing
    /\ req = NoReq
    /\ last = NoResult
    /\ pc = [p \in Procs |-> "idle"]
    /\ loc = [p \in Procs |-> IdleLoc]
    /\ merge \in [a : SourceLists, b : SourceLists, op : {"none"}, out : {<<>>}]
    /\ call = NoCall

\* create_complete_timeline.merge_all_data_sources on the two lists
MergeAllDataSources ==
    /\ merge.op = "none"
    /\ merge' = [merge EXCEPT !.op = "merge_all_data_sources",
                              !.out = merge_all_data_sources(merge.a, merge.b)]
    /\ UNCHANGED <<store, req, last, pc, loc, call>>

\* merge_chart_data.merge_data_sources on the two lists
MergeDataSources ==
    /\ merge.op = "none"
    /\ merge' = [merge EXCEPT !.op = "merge_data_sources",
                              !.out = merge_data_sources(merge.a, merge.b)]
    /\ UNCHANGED <<store, req, last, pc, loc, call>>

NextMerge == MergeAllDataSources \/ MergeDataSources

SpecMerge == InitMerge /\ [][NextMerge]_vars

(***************************************************************************)
(* Two invocations of update_json_file against the same store, step by     *)
(* step: load the file, open it for writing (which truncates it), dump.    *)
(***************************************************************************)
ConcPages ==
    {page \in Pages :
        /\ page.rows = MinEntries /\ ~page.error
        /\ page.date_line # JunkLine
        /\ page.today = ToOrdinal(2025, 5, 14)}

\* with open(..., 'r'): json.load
Load(p, page) ==
    /\ pc[p] = "idle"
    /\ \E loaded \in {LoadStore(store, "ok")} :
          loc' = [loc EXCEPT ![p] = [page |-> page,
                                     existing_data |-> loaded.data,
                                     ok |-> loaded.ok,
                                     ret |-> FALSE, dirty |-> FALSE]]
    /\ pc' = [pc EXCEPT ![p] = "loaded"]
    /\ UNCHANGED <<store, req, last, merge, call>>

\* the checks, then open(..., 'w'), which leaves the file empty
OpenWrite(p) ==
    /\ pc[p] = "loaded"
    /\ IF loc[p].ok /\ Accepts(loc[p].existing_data, scrape_current_charts(loc[p].page))
       THEN /\ store' = Partial(<<>>)
            /\ pc' = [pc EXCEPT ![p] = "writing"]
       ELSE /\ store' = store
            /\ pc' = [pc EXCEPT ![p] = "done"]
    /\ UNCHANGED <<req, last, loc, merge, call>>

\* json.dump and close: the file holds this invocation's list, unless
\* another invocation wrote to the file while this one had it open, when
\* the bytes of the two may be mixed
Dump(p) ==
    /\ pc[p] = "writing"
    /\ \E mine \in {MergedData(loc[p].existing_data,
                               scrape_current_charts(loc[p].page))} :
          store' \in (IF loc[p].dirty THEN {Stored(mine), Partial(mine)}
                      ELSE {Stored(mine)})
    /\ loc' = [q \in Procs |->
                  IF q = p THEN [loc[q] EXCEPT !.ret = TRUE]
                  ELSE IF pc[q] = "writing" THEN [loc[q] EXCEPT !.dirty = TRUE]
                  ELSE loc[q]]
    /\ pc' = [pc EXCEPT ![p] = "done"]
    /\ UNCHANGED <<req, last, merge, call>>

NextConc ==
    \/ \E p \in Procs, page \in ConcPages : Load(p, page)
    \/ \E p \in Procs : OpenWrite(p)
    \/ \E p \in Procs : Dump(p)

\* the store the two invocations find: none yet, or one merged week
InitConc ==
    /\ store \in {Missing,
                  Stored(scrape_current_charts(
                      [rows |-> MaxRows, date_line |-> NoLine,
                       today |-> ToOrdinal(2026, 1, 7), error |-> FALSE]))}
    /\ req = NoReq
    /\ last = NoResult
    /\ pc = [p \in Procs |-> "idle"]
    /\ loc = [p \in Procs |-> IdleLoc]
    /\ merge = NoMerge
    /\ call = NoCall

SpecConc == InitConc /\ [][NextConc]_vars

(***************************************************************************)
(* fix_csv_dates: the collected CSV converted to chart week ranges.        *)
(***************************************************************************)
\* date_mapping.get(original_date, original_date)
date_mapping(original_date) ==
    IF original_date = DateStr(5, 29, 2025) THEN RangeStr(5, 23, 5, 29, 2025)
    ELSE IF original_date = DateStr(6, 2, 2025) THEN RangeStr(5, 26, 6, 1, 2025)
    ELSE IF original_date = DateStr(6, 7, 2025) THEN RangeStr(5, 26, 6, 1, 2025)
    ELSE original_date

\* a conversion that skips no collection date
NoDateSkipped(original_date) == FALSE

\* the rows that are passed over as duplicates of another collection
IsSkippedDate(original_date) == original_date = DateStr(6, 2, 2025)

\* the loop over the rows of the CSV reader; a row in which no column is
\* called Name is passed over with a warning
RECURSIVE ConvertRows(_, _, _, _)
ConvertRows(rows, i, converted_data, name_key) ==
    IF i > Len(rows) THEN converted_data
    ELSE IF ~name_key \/ IsSkippedDate(rows[i].ChartDate)
    THEN ConvertRows(rows, i + 1, converted_data, name_key)
    ELSE ConvertRows(rows, i + 1,
                     Append(converted_data,
                            Entry(rows[i].Name, rows[i].Rank,
                                  date_mapping(rows[i].ChartDate),
                                  rows[i].ChannelURL, rows[i].ThumbnailURL)),
                     name_key)

\* convert_csv_to_proper_weeks: the converted entries; the empty list when
\* the CSV file is not found
convert_csv_to_proper_weeks(csv) ==
    IF csv.missing THEN <<>>
    ELSE ConvertRows(csv.rows, 1, <<>>, csv.name_key)

\* the rows of the collected CSV: Chart Date is the day of the collection
CsvRows ==
    {Entry(name, "1", date, "", "") :
        name \in {"Show A", "Show B"},
        date \in {DateStr(5, 29, 2025), DateStr(6, 2, 2025),
                  DateStr(6, 7, 2025), DateStr(6, 14, 2025)}}

RECURSIVE CsvRowLists(_)
CsvRowLists(n) ==
    IF n = 0 THEN {<<>>}
    ELSE LET shorter == CsvRowLists(n - 1)
         IN  shorter \cup {Append(l, e) : l \in shorter, e \in CsvRows}

\* the CSV files: found or not, with or without a Name column
CsvInputs ==
    [missing : {FALSE}, name_key : BOOLEAN, rows : CsvRowLists(MaxCsvRows)]
    \cup [missing : {TRUE}, name_key : {TRUE}, rows : {<<>>}]

InitCsv ==
    /\ store = Missing
    /\ req = NoReq
    /\ last = NoResult
    /\ pc = [p \in Procs |-> "idle"]
    /\ loc = [p \in Procs |-> IdleLoc]
    /\ merge = NoMerge
    /\ call \in [op : {"none"}, arg : CsvInputs, out : {<<>>}]

\* fix_csv_dates.main up to the converted list
ConvertCsv ==
    /\ call.op = "none"
    /\ call' = [call EXCEPT !.op = "convert",
                            !.out = convert_csv_to_proper_weeks(call.arg)]
    /\ UNCHANGED <<store, req, last, pc, loc, merge>>

SpecCsv == InitCsv /\ [][ConvertCsv]_vars

(***************************************************************************)
(* The analyzers: analyze_complete_timeline and generate_data_report.      *)
(***************************************************************************)
\* the entry counts from which a week is shown as full, and as partial
FullCount == 90
PartialCount == 50

\* a classification that asks for more than the full count
StatusAboveFull(week_count) ==
    IF week_count > FullCount THEN "full"
    ELSE IF week_count >= PartialCount THEN "partial" ELSE "poor"

\* the mark printed for a week of week_count entries
WeekStatus(week_count) ==
    IF week_count >= FullCount THEN "full"
    ELSE IF week_count >= PartialCount THEN "partial" ELSE "poor"

\* len([e for e in data if e.get('Chart Date') == week])
week_count(data, week) ==
    Cardinality({i \in 1..Len(data) : data[i].ChartDate = week})

\* expected_weeks of analyze_complete_timeline
expected_weeks ==
    <<RangeStr(5, 5, 5, 11, 2025), RangeStr(5, 12, 5, 18, 2025),
      RangeStr(5, 19, 5, 25, 2025), RangeStr(5, 23, 5, 29, 2025),
      RangeStr(5, 26, 6, 1, 2025)>>

\* the Chart Dates of data that are not empty
analyzed_weeks(data) ==
    {data[i].ChartDate : i \in 1..Len(data)} \ {NoLine}

\* the place of a character among the characters of a Chart Date, which
\* are written here in the order of their code points
CodePoint(c) ==
    LET alphabet == " ,-0123456789ABCDEFGHIJKLMNOPQRSTUVWXYZabcdefghijklmnopqrstuvwxyz"
    IN  CHOOSE i \in 1..Len(alphabet) : SubSeq(alphabet, i, i) = c

\* a < b of two str: at the first place where they differ a has the
\* lower character, or a ends there
StrLess(a, b) ==
    \E k \in 1..Len(b) :
        /\ k <= Len(a) + 1
        /\ SubSeq(a, 1, k - 1) = SubSeq(b, 1, k - 1)
        /\ \/ k = Len(a) + 1
           \/ CodePoint(SubSeq(a, k, k)) < CodePoint(SubSeq(b, k, k))

\* the list in the order the reports go through it: sorted(...) and
\* list.sort() of Chart Date strings, which compare as str
RECURSIVE SortedWeeks(_)
SortedWeeks(weeks) ==
    IF weeks = {} THEN <<>>
    ELSE LET first == CHOOSE w \in weeks :
                          \A v \in weeks :
                              ~StrLess(ChartDateText(v), ChartDateText(w))
         IN  <<first>> \o SortedWeeks(weeks \ {first})

\* analyze_complete_timeline: nothing is reported for an empty list; else
\* the weeks in the order of weeks.sort(), a mark per week and the
\* expected weeks that were not found, in the order of expected_weeks
analyze_complete_timeline(data) ==
    IF data = <<>>
    THEN [ran |-> FALSE, status |-> <<>>, missing_weeks |-> <<>>, weeks |-> <<>>]
    ELSE LET weeks == analyzed_weeks(data)
         IN  [ran |-> TRUE,
              status |-> [week \in weeks |-> WeekStatus(week_count(data, week))],
              missing_weeks |->
                  SelectSeq(expected_weeks, LAMBDA w : w \notin weeks),
              weeks |-> SortedWeeks(weeks)]

\* analyze_data_gaps: the weeks covered, in the order of dates.sort()
analyze_data_gaps(data) ==
    IF data = <<>>
    THEN [ran |-> FALSE, status |-> <<>>, missing_weeks |-> <<>>, weeks |-> <<>>]
    ELSE [ran |-> TRUE, status |-> <<>>, missing_weeks |-> <<>>,
          weeks |-> SortedWeeks(analyzed_weeks(data))]


\* generate_data_report, the completeness by week: a mark per Chart Date
generate_data_report(data) ==
    IF data = <<>>
    THEN [ran |-> FALSE, status |-> <<>>, missing_weeks |-> <<>>, weeks |-> <<>>]
    ELSE LET week_counts == {data[i].ChartDate : i \in 1..Len(data)}
         IN  [ran |-> TRUE,
              status |-> [week \in week_counts |->
                             WeekStatus(week_count(data, week))],
              missing_weeks |-> <<>>,
              weeks |-> SortedWeeks(week_counts)]

\* the numbers of entries a week of an analyzed Timeline holds
WeekCounts == {0, PartialCount - 1, PartialCount, FullCount - 1, FullCount, MaxRows}

\* the Timelines handed to the analyzers: three weeks, and at times an
\* entry without Chart Date
AnalyzedTimelines ==
    {SourceRows("Show", c1, RangeStr(5, 5, 5, 11, 2025))
     \o SourceRows("Show", c2, RangeStr(5, 12, 5, 18, 2025))
     \o SourceRows("Show", c3, RangeStr(5, 23, 5, 29, 2025))
     \o SourceRows("Show", c4, NoLine) :
        c1 \in WeekCounts, c2 \in WeekCounts, c3 \in WeekCounts, c4 \in {0, 1}}

\* the weeks a caller expects the Timeline to hold
ExpectedLists ==
    {expected_weeks,
     <<RangeStr(5, 5, 5, 11, 2025), RangeStr(5, 12, 5, 18, 2025),
       RangeStr(5, 23, 5, 29, 2025), RangeStr(6, 2, 6, 8, 2025)>>}

InitAnalyze ==
    /\ store = Missing
    /\ req = NoReq
    /\ last = NoResult
    /\ pc = [p \in Procs |-> "idle"]
    /\ loc = [p \in Procs |-> IdleLoc]
    /\ merge = NoMerge
    /\ call \in [op : {"none"},
                  arg : [data : AnalyzedTimelines, expected : ExpectedLists],
                  out : {<<>>}]

\* analyze_complete_timeline(data): the expected weeks of the caller are
\* not among its parameters
AnalyzeCompleteTimeline ==
    /\ call.op = "none"
    /\ call' = [call EXCEPT !.op = "analyze_complete_timeline",
                            !.out = analyze_complete_timeline(call.arg.data)]
    /\ UNCHANGED <<store, req, last, pc, loc, merge>>

GenerateDataReport ==
    /\ call.op = "none"
    /\ call' = [call EXCEPT !.op = "generate_data_report",
                            !.out = generate_data_report(call.arg.data)]
    /\ UNCHANGED <<store, req, last, pc, loc, merge>>

AnalyzeDataGaps ==
    /\ call.op = "none"
    /\ call' = [call EXCEPT !.op = "analyze_data_gaps",
                            !.out = analyze_data_gaps(call.arg.data)]
    /\ UNCHANGED <<store, req, last, pc, loc, merge>>

\* fix_chronological_order on a Timeline, up to the new order it shows
\* once the dates are corrected: sorted(set(...)) of the Chart Dates
ShowNewOrder ==
    /\ call.op = "none"
    /\ \E fixed_data \in {fix_chronological_order(call.arg.data)} :
          call' = [call EXCEPT
                      !.op = "fix_chronological_order",
                      !.out = [ran |-> TRUE, status |-> <<>>,
                               missing_weeks |-> <<>>,
                               weeks |-> SortedWeeks(
                                   {fixed_data[i].ChartDate :
                                       i \in 1..Len(fixed_data)})]]
    /\ UNCHANGED <<store, req, last, pc, loc, merge>>

NextAnalyze ==
    \/ AnalyzeCompleteTimeline
    \/ GenerateDataReport
    \/ AnalyzeDataGaps
    \/ ShowNewOrder

SpecAnalyze == InitAnalyze /\ [][NextAnalyze]_vars

(***************************************************************************)
(* Computed mode on its own: the week range of every day of the calendar.  *)
(***************************************************************************)
\* the days datetime.now() may give
CalendarDays == ToOrdinal(FirstYear, 1, 14)..ToOrdinal(LastYear, 12, 31)

InitWeek ==
    /\ store = Missing
    /\ req = NoReq
    /\ last = NoResult
    /\ pc = [p \in Procs |-> "idle"]
    /\ loc = [p \in Procs |-> IdleLoc]
    /\ merge = NoMerge
    /\ call \in [op : {"none"}, arg : CalendarDays, out : {<<>>}]

\* chart_date = get_current_week_date(); get_week_range(chart_date)
ComputeWeekRange ==
    /\ call.op = "none"
    /\ \E chart_date \in {get_current_week_date(call.arg)} :
          call' = [call EXCEPT !.op = "get_week_range",
                               !.out = [chart_date |-> chart_date,
                                        range |-> get_week_range(chart_date)]]
    /\ UNCHANGED <<store, req, last, pc, loc, merge>>

SpecWeek == InitWeek /\ [][ComputeWeekRange]_vars

(***************************************************************************)
(* The snapshot parsers, record by record.  A record is one located        *)
(* element of the page:                                                    *)
(*   rank_text  the text of its rank element (None: no such element)       *)
(*   digits     a text node of digits only in it (None: there is none)     *)
(*   title      the text its title element gives (None: no such element)   *)
(*   text       the whole text of the element                              *)
(*   endpoint   the url of the endpoint attribute (None: not there)        *)
(*   href       the href of its first link (NoElement: no link)            *)
(*   src        the src of its image (NoElement: no image)                 *)
(***************************************************************************)
\* Python's None: an attribute or an element that is not there
None == "None"

\* the record has no element of the kind
NoElement == "<no element>"

\* str.startswith
StartsWith(str, prefix) ==
    Len(str) >= Len(prefix) /\ SubSeq(str, 1, Len(prefix)) = prefix

\* prefix in str
Contains(str, part) ==
    \E i \in 1..(Len(str) - Len(part) + 1) :
        SubSeq(str, i, i + Len(part) - 1) = part

\* the texts int() accepts, with their values
NumericTexts == {"0", "7", "150", "12345"}
IntOf(text) ==
    CASE text = "0" -> 0
      [] text = "7" -> 7
      [] text = "150" -> 150
      [] text = "12345" -> 12345

\* a truthy string: neither None nor empty
Truthy(str) == str # None /\ str # ""

\* a name that is left as it was found
NameAsFound(name, rank) == name

\* if not name: name = f"Unknown Podcast {rank}"
NameOrPlaceholder(name, rank) ==
    IF name # "" THEN name ELSE "Unknown Podcast " \o ToString(rank)

\* scrape_current_charts, one row: rank by position, the name of the
\* first selector that gives one or the placeholder, the href put on the
\* origin when it does not start with http, the src as it is
collect_row(record, position, week) ==
    LET rank == position
        name == NameOrPlaceholder(IF Truthy(record.title) THEN record.title
                                  ELSE "", rank)
        channel_url ==
            IF record.href = NoElement THEN ""
            ELSE IF Truthy(record.href) /\ ~StartsWith(record.href, "http")
            THEN "https://www.youtube.com" \o record.href
            ELSE record.href
        thumbnail_url == IF record.src = NoElement THEN "" ELSE record.src
    IN  <<Entry(name, ToString(rank), week, channel_url, thumbnail_url)>>

\* scrape_wayback_with_playwright, one element: int() of the rank text
\* raises on other than digits and the element is passed over, as is an
\* element without a title of 2 characters
playwright_row(record, position, week) ==
    IF record.rank_text # None /\ record.rank_text \notin NumericTexts
    THEN <<>>
    ELSE LET rank == IF record.rank_text # None THEN IntOf(record.rank_text)
                     ELSE position
             url == IF Truthy(record.endpoint) THEN record.endpoint ELSE ""
             thumb_url == IF record.src = NoElement \/ ~Truthy(record.src)
                          THEN "" ELSE record.src
         IN  IF record.title = None \/ Len(record.title) < 2 THEN <<>>
             ELSE <<Entry(record.title, ToString(rank), week, url, thumb_url)>>

\* the thumbnail of the requests parsers: put on a scheme or the origin
\* when it starts with // or /
FixedThumbnail(src) ==
    IF src = NoElement \/ ~Truthy(src) THEN ""
    ELSE IF StartsWith(src, "http") THEN src
    ELSE IF StartsWith(src, "//") THEN "https:" \o src
    ELSE IF StartsWith(src, "/") THEN "https://www.youtube.com" \o src
    ELSE src

\* scrape_wayback_with_selectors, one row
targeted_row(record, position, week) ==
    LET rank_text == IF record.rank_text # None THEN record.rank_text
                     ELSE record.digits
    IN  IF rank_text # None /\ rank_text \notin NumericTexts THEN <<>>
        ELSE LET rank == IF rank_text # None THEN IntOf(rank_text) ELSE position
                 link == IF record.href \in {NoElement, None} THEN ""
                         ELSE IF ~Contains(record.href, "youtube.com") THEN ""
                         ELSE IF StartsWith(record.href, "http") THEN record.href
                         ELSE "https://www.youtube.com" \o record.href
                 url == IF Truthy(record.endpoint) THEN record.endpoint ELSE link
             IN  IF record.title = None \/ Len(record.title) < 2 THEN <<>>
                 ELSE <<Entry(record.title, ToString(rank), week, url,
                              FixedThumbnail(record.src))>>

\* extract_podcast_info_flexible: the title when it is of more than 2 and
\* fewer than 100 characters, else the whole text cut to 100 characters
extract_podcast_info_flexible(element, rank) ==
    LET found == IF element.title # None /\ Len(element.title) > 2
                    /\ Len(element.title) < 100
                 THEN element.title ELSE ""
        text == IF Len(element.text) > 100
                THEN SubSeq(element.text, 1, 97) \o "..."
                ELSE element.text
        name == IF found # "" THEN found ELSE text
        channel_url ==
            IF element.href \in {NoElement, None, ""} THEN ""
            ELSE IF StartsWith(element.href, "/")
            THEN "https://www.youtube.com" \o element.href
            ELSE IF StartsWith(element.href, "http") THEN element.href
            ELSE ""
    IN  [name |-> NameOrPlaceholder(name, rank),
         thumbnail |-> FixedThumbnail(element.src),
         url |-> channel_url]

\* scrape_wayback_chart, one element
flexible_row(element, position, week) ==
    LET info == extract_podcast_info_flexible(element, position)
    IN  IF Len(info.name) > 2
        THEN <<Entry(info.name, ToString(position), week, info.url, info.thumbnail)>>
        ELSE <<>>

\* the fewest elements a selector of try_multiple_selectors has to find,
\* and the most entries a requests parser emits
MinElements == 10
MaxEntries == 100

\* the slice list[:n]
Take(list, n) == SubSeq(list, 1, IF Len(list) < n THEN Len(list) ELSE n)

\* the entry, or none, a parser makes of one record
RowOf(parser, record, position, week) ==
    CASE parser = "scrape_current_charts" -> collect_row(record, position, week)
      [] parser = "scrape_wayback_with_playwright" -> playwright_row(record, position, week)
      [] parser = "scrape_wayback_with_selectors" -> targeted_row(record, position, week)
      [] parser = "scrape_wayback_chart" -> flexible_row(record, position, week)

\* the loop over the located records, in document order: the entries of
\* the records that give one; the requests parsers leave the loop once
\* they hold MaxEntries entries
ParseRows(parser, elements, week) ==
    LET rows == [i \in 1..Len(elements) |-> RowOf(parser, elements[i], i, week)]
        made == SelectSeq(rows, LAMBDA r : r # <<>>)
        entries == [k \in 1..Len(made) |-> made[k][1]]
    IN  IF parser \in {"scrape_wayback_with_selectors", "scrape_wayback_chart"}
        THEN Take(entries, MaxEntries)
        ELSE entries

\* the snapshot a parser emits for the located records
ParsePage(parser, elements, week) ==
    IF parser = "scrape_wayback_chart"
    THEN IF Len(elements) > MinElements
         THEN ParseRows(parser, Take(elements, MaxEntries), week)
         ELSE <<>>
    ELSE ParseRows(parser, elements, week)

\* the plain record: a title, no rank element, no link, no image
PlainRecord ==
    [rank_text |-> None, digits |-> None, title |-> "Show X",
     text |-> "Show X 1.2M views", endpoint |-> None,
     href |-> NoElement, src |-> NoElement]

\* the records that differ from the plain one in their rank, their name,
\* their link or their image
Records ==
    {PlainRecord}
    \cup {[PlainRecord EXCEPT !.rank_text = t] : t \in {"7", "150", "N/A"}}
    \cup {[PlainRecord EXCEPT !.digits = "12345"]}
    \cup {[PlainRecord EXCEPT !.title = None, !.text = t] :
             t \in {"", "Show X 1.2M views"}}
    \cup {[PlainRecord EXCEPT !.title = "A", !.text = "A"]}
    \cup {[PlainRecord EXCEPT !.href = h] :
             h \in {None, "/channel/UC1", "https://www.youtube.com/channel/UC1"}}
    \cup {[PlainRecord EXCEPT !.endpoint = "/channel/UC1"]}
    \cup {[PlainRecord EXCEPT !.src = u] :
             u \in {None, "img/t.jpg", "//i.ytimg.com/t.jpg",
                     "https://i.ytimg.com/t.jpg"}}

RECURSIVE RecordLists(_)
RecordLists(n) ==
    IF n = 0 THEN {<<>>}
    ELSE LET shorter == RecordLists(n - 1)
         IN  shorter \cup {Append(l, e) : l \in shorter, e \in Records}

\* the located records of a page
Elements(page) == page.records \o [i \in 1..page.plain |-> PlainRecord]

\* the week a Wayback capture is scraped for
ParsedWeek == RangeStr(5, 5, 5, 11, 2025)

Parsers ==
    {"scrape_current_charts", "scrape_wayback_with_playwright",
     "scrape_wayback_with_selectors", "scrape_wayback_chart"}

InitParse ==
    /\ store = Missing
    /\ req = NoReq
    /\ last = NoResult
    /\ pc = [p \in Procs |-> "idle"]
    /\ loc = [p \in Procs |-> IdleLoc]
    /\ merge = NoMerge
    /\ call \in [op : {"none"},
                  arg : [records : RecordLists(MaxRecords),
                         plain : {0, MinElements, MaxEntries - 1}],
                  out : {<<>>}]

\* one of the parsers runs over the page
Parse(parser) ==
    /\ call.op = "none"
    /\ call' = [call EXCEPT !.op = parser,
                            !.out = ParsePage(parser, Elements(call.arg), ParsedWeek)]
    /\ UNCHANGED <<store, req, last, pc, loc, merge>>

ScrapeCurrentCharts == Parse("scrape_current_charts")
ScrapeWaybackWithPlaywright == Parse("scrape_wayback_with_playwright")
ScrapeWaybackWithSelectors == Parse("scrape_wayback_with_selectors")
ScrapeWaybackChart == Parse("scrape_wayback_chart")

NextParse ==
    \/ ScrapeCurrentCharts
    \/ ScrapeWaybackWithPlaywright
    \/ ScrapeWaybackWithSelectors
    \/ ScrapeWaybackChart

SpecParse == InitParse /\ [][NextParse]_vars

(***************************************************************************)
(* The extraction strategies of one field.  What a strategy comes upon is  *)
(* absent (no element for the selector, no such key in the object), a      *)
(* string, or a dict with a url entry.                                     *)
(***************************************************************************)
Absent == [type |-> "absent", str |-> ""]
Str(s) == [type |-> "str", str |-> s]
Dict(url) == [type |-> "dict", str |-> url]

\* name_selectors of scrape_current_charts
name_selectors == <<".title.ytmc-entry-row", ".entity-name", "h3", ".title">>

\* text_selectors of extract_podcast_info_flexible
text_selectors == <<"h3", "h2", "h4", "a", "span[class*=title]", "[id*=title]">>

\* the keys extract_podcast_from_object looks up, field by field
title_keys == <<"title", "name", "text", "runs">>
thumb_keys == <<"thumbnail", "thumbnails", "avatar">>
url_keys == <<"videoId", "playlistId", "channelId", "navigationEndpoint">>

\* the loop over name_selectors: name is the text of the last element
\* found, and the loop ends at the first text that is not empty
RECURSIVE NameOfSelectors(_, _, _)
NameOfSelectors(found, i, name) ==
    IF i > Len(name_selectors) THEN name
    ELSE IF found[i].type = "absent" THEN NameOfSelectors(found, i + 1, name)
    ELSE IF found[i].str # "" THEN found[i].str
    ELSE NameOfSelectors(found, i + 1, "")

\* the loop over text_selectors: the first text of more than 2 and fewer
\* than 100 characters, None when there is none
RECURSIVE NameOfTextSelectors(_, _)
NameOfTextSelectors(found, i) ==
    IF i > Len(text_selectors) THEN None
    ELSE IF found[i].type # "absent" /\ found[i].str # ""
            /\ Len(found[i].str) > 2 /\ Len(found[i].str) < 100
    THEN found[i].str
    ELSE NameOfTextSelectors(found, i + 1)

\* for key in keys: if key in obj: ...; break -- the first key of the
\* list that the object has, 0 when it has none of them
RECURSIVE FirstKeyIn(_, _, _)
FirstKeyIn(obj, keys, i) ==
    IF i > Len(keys) THEN 0
    ELSE IF obj[keys[i]].type # "absent" THEN i
    ELSE FirstKeyIn(obj, keys, i + 1)

\* extract_podcast_from_object: no podcast when the title is empty or
\* shorter than 3, else the title, the thumbnail and the url
extract_podcast_from_object(obj) ==
    LET t == FirstKeyIn(obj, title_keys, 1)
        title == IF t # 0 /\ obj[title_keys[t]].type = "str"
                 THEN obj[title_keys[t]].str ELSE None
        h == FirstKeyIn(obj, thumb_keys, 1)
        thumbnail_url == IF h # 0 /\ obj[thumb_keys[h]].type = "dict"
                         THEN obj[thumb_keys[h]].str ELSE ""
        u == FirstKeyIn(obj, url_keys, 1)
        url == IF u = 0 \/ obj[url_keys[u]].type # "str" THEN ""
               ELSE IF url_keys[u] = "videoId"
               THEN "https://www.youtube.com/watch?v=" \o obj[url_keys[u]].str
               ELSE IF url_keys[u] = "playlistId"
               THEN "https://www.youtube.com/playlist?list=" \o obj[url_keys[u]].str
               ELSE IF url_keys[u] = "channelId"
               THEN "https://www.youtube.com/channel/" \o obj[url_keys[u]].str
               ELSE ""
    IN  IF ~Truthy(title) \/ Len(title) < 3 THEN <<>>
        ELSE <<[title |-> title, thumbnail_url |-> thumbnail_url, url |-> url]>>

\* a text of n characters
RECURSIVE NameOfLength(_)
NameOfLength(n) == IF n = 0 THEN "" ELSE "n" \o NameOfLength(n - 1)

\* what the i-th strategy of a field comes upon; the first one, texts of
\* the lengths about which the extractors decide
Yields(i) ==
    IF i = 1
    THEN {Absent} \cup {Str(NameOfLength(n)) : n \in {0, 1, 2, 3, 99, 100, 101}}
    ELSE IF i <= Len(name_selectors)
    THEN {Absent, Str(""), Str("Ab"), Str("Show " \o ToString(i))}
    ELSE {Absent, Str("Show " \o ToString(i))}

\* the other keys of a JSON object
OtherKeys ==
    {[thumbnail |-> Absent, thumbnails |-> Absent, avatar |-> Absent,
      videoId |-> Absent, playlistId |-> Absent, channelId |-> Absent,
      navigationEndpoint |-> Absent],
     [thumbnail |-> Str("t.jpg"), thumbnails |-> Absent,
      avatar |-> Dict("https://i.ytimg.com/a.jpg"),
      videoId |-> Dict("v"), playlistId |-> Str("PL1"), channelId |-> Absent,
      navigationEndpoint |-> Absent]}

InitStrategy ==
    /\ store = Missing
    /\ req = NoReq
    /\ last = NoResult
    /\ pc = [p \in Procs |-> "idle"]
    /\ loc = [p \in Procs |-> IdleLoc]
    /\ merge = NoMerge
    /\ call \in [op : {"none"},
                  arg : [found : {<<a, b, c, d, e, f>> :
                                    a \in Yields(1), b \in Yields(2),
                                    c \in Yields(3), d \in Yields(4),
                                    e \in Yields(5), f \in Yields(6)},
                         text : {"", PlainRecord.text, NameOfLength(101)},
                         other : OtherKeys],
                  out : {<<>>}]

\* scrape_current_charts on the first row of a page
ExtractRow ==
    /\ call.op = "none"
    /\ call' = [call EXCEPT
                   !.op = "scrape_current_charts",
                   !.out = collect_row(
                       [PlainRecord EXCEPT
                           !.title = NameOfSelectors(call.arg.found, 1, ""),
                           !.text = call.arg.text],
                       1, ParsedWeek)]
    /\ UNCHANGED <<store, req, last, pc, loc, merge>>

\* extract_podcast_info_flexible on the first element of a page
ExtractPodcastInfoFlexible ==
    /\ call.op = "none"
    /\ call' = [call EXCEPT
                   !.op = "extract_podcast_info_flexible",
                   !.out = <<extract_podcast_info_flexible(
                       [PlainRecord EXCEPT
                           !.title = NameOfTextSelectors(call.arg.found, 1),
                           !.text = call.arg.text],
                       1)>>]
    /\ UNCHANGED <<store, req, last, pc, loc, merge>>

\* scrape_wayback_chart on the first element of a page
ScrapeElement ==
    /\ call.op = "none"
    /\ call' = [call EXCEPT
                   !.op = "scrape_wayback_chart",
                   !.out = flexible_row(
                       [PlainRecord EXCEPT
                           !.title = NameOfTextSelectors(call.arg.found, 1),
                           !.text = call.arg.text],
                       1, ParsedWeek)]
    /\ UNCHANGED <<store, req, last, pc, loc, merge>>

\* extract_podcast_from_object on one object of the page's JSON: its
\* title keys hold what was found, in the order of title_keys
ExtractPodcastFromObject ==
    /\ call.op = "none"
    /\ \E found \in {call.arg.found}, other \in {call.arg.other} :
          call' = [call EXCEPT
                      !.op = "extract_podcast_from_object",
                      !.out = extract_podcast_from_object(
                          [title |-> found[1], name |-> found[2],
                           text |-> found[3], runs |-> found[4],
                           thumbnail |-> other.thumbnail,
                           thumbnails |-> other.thumbnails,
                           avatar |-> other.avatar, videoId |-> other.videoId,
                           playlistId |-> other.playlistId,
                           channelId |-> other.channelId,
                           navigationEndpoint |-> other.navigationEndpoint])]
    /\ UNCHANGED <<store, req, last, pc, loc, merge>>

NextStrategy ==
    \/ ExtractRow
    \/ ExtractPodcastInfoFlexible
    \/ ScrapeElement
    \/ ExtractPodcastFromObject

SpecStrategy == InitStrategy /\ [][NextStrategy]_vars

(***************************************************************************)
(* YouTubeDatasetBuilder.make_api_request, one HTTP request at a time.     *)
(* A response is the status of requests.get ("200" comes with a JSON       *)
(* body), or "exception" when requests.get raises a RequestException.      *)
(***************************************************************************)
MAX_RETRIES == 3

\* a test that allows one retry more
RetriesNotAbove(retries) == retries <= MAX_RETRIES

\* retries < MAX_RETRIES
RetriesLeft(retries) == retries < MAX_RETRIES

\* one pass through make_api_request, from requests.get to the return or
\* to the recursive call with retries + 1
make_api_request(frame, response) ==
    IF response = "200"
    THEN [frame EXCEPT !.sent = @ + 1, !.returned = TRUE, !.ret = "json"]
    ELSE IF response \in {"403", "429"} /\ RetriesLeft(frame.retries)
    THEN [frame EXCEPT !.sent = @ + 1, !.retries = @ + 1]
    ELSE IF response = "exception" /\ RetriesLeft(frame.retries)
    THEN [frame EXCEPT !.sent = @ + 1, !.retries = @ + 1]
    ELSE [frame EXCEPT !.sent = @ + 1, !.returned = TRUE, !.ret = None]

\* what the server answers, request after request
RECURSIVE ResponseLists(_)
ResponseLists(n) ==
    IF n = 0 THEN {<<>>}
    ELSE {Append(l, r) : l \in ResponseLists(n - 1),
                         r \in {"200", "403", "429", "500", "exception"}}

InitApi ==
    /\ store = Missing
    /\ req = NoReq
    /\ last = NoResult
    /\ pc = [p \in Procs |-> "idle"]
    /\ loc = [p \in Procs |-> IdleLoc]
    /\ merge = NoMerge
    /\ call \in [op : {"none"}, arg : ResponseLists(MaxResponses), out : {<<>>}]

\* make_api_request(endpoint, params) is called: retries = 0, and no
\* request was sent yet
CallApi ==
    /\ call.op = "none"
    /\ call' = [call EXCEPT
                   !.op = "make_api_request",
                   !.out = [sent |-> 0, retries |-> 0,
                            returned |-> FALSE, ret |-> None]]
    /\ UNCHANGED <<store, req, last, pc, loc, merge>>

\* requests.get and what follows it, up to the next request or the return
SendRequest ==
    /\ call.op = "make_api_request"
    /\ ~call.out.returned
    /\ call.out.sent < Len(call.arg)
    /\ call' = [call EXCEPT
                   !.out = make_api_request(call.out, call.arg[call.out.sent + 1])]
    /\ UNCHANGED <<store, req, last, pc, loc, merge>>

NextApi == CallApi \/ SendRequest

\* a call that has started runs on: time.sleep returns and requests.get
\* ends with a response or, after its timeout, with an exception
SpecApi == InitApi /\ [][NextApi]_vars /\ WF_vars(NextApi)

(***************************************************************************)
(* update_json_file called with a list of entries of the caller's making:  *)
(* the function takes any list, of one week or not.                        *)
(***************************************************************************)
\* the lists update_json_file is called with: none, a snapshot of one
\* week, or a snapshot followed by an entry of another week
NewDataLists ==
    LET weeks == {RangeStr(5, 5, 5, 11, 2025), RangeStr(5, 12, 5, 18, 2025),
                  RangeStr(5, 23, 5, 29, 2025)}
    IN  {<<>>}
        \cup {SourceRows("Show", n, w) :
                 n \in {MinEntries - 1, MinEntries}, w \in weeks}
        \cup {SourceRows("Show", MinEntries, wv[1]) \o SourceRows("Late", 1, wv[2]) :
                 wv \in {p \in weeks \X weeks : p[1] # p[2]}}

\* update_json_file(new_data)
CallUpdateJsonFile(new_data, io) ==
    /\ NumWeeks < MaxWeeks
    /\ Len(store.data) <= (MaxWeeks - 1) * MaxRows
    /\ \E r \in {update_json_file(store, new_data, io, DumpCut)} :
           /\ store' = r.store
           /\ call' = [op |-> "update_json_file",
                       arg |-> [new_data |-> new_data, io |-> io],
                       out |-> [ret |-> r.ret, log |-> r.log]]
    /\ UNCHANGED <<req, last, pc, loc, merge>>

NextUpdate ==
    \E new_data \in NewDataLists, io \in IOs : CallUpdateJsonFile(new_data, io)

SpecUpdate == Init /\ [][NextUpdate]_vars

(***************************************************************************)
(* What the claims speak of, stated apart from the definitions above.      *)
(***************************************************************************)
\* the Chart Dates carried by the entries of a list
WeeksIn(data) == {data[i]["ChartDate"] : i \in DOMAIN data}

\* the step is a run of update_json_file (directly or from main) on the
\* entries new_data of the capture
RunsUpdateOn(new_data) ==
    /\ req.op \in {"update", "main"}
    /\ req' = NoReq
    /\ new_data # <<>>

\* the entries a capture of the page holds: one per row, none when the
\* capture fails
CapturedRows(page) == IF page.error THEN 0 ELSE page.rows

\* the week every entry of a non-empty capture carries
CapturedWeek(page) == actual_week_range(page)

\* the store file is whole and can be read and written in this run
FilesWork == store.status # "partial" /\ req.io = "ok"

\* a occurs in s as often as in t
SameCount(s, t, e) ==
    Cardinality({i \in DOMAIN s : s[i] = e}) = Cardinality({i \in DOMAIN t : t[i] = e})

\* s and t hold the same entries, each as often
SameBag(s, t) ==
    /\ Len(s) = Len(t)
    /\ \A i \in DOMAIN s : SameCount(s, t, s[i])

\* the entries of data under one Chart Date, in order
OfWeek(data, week) == SelectSeq(data, LAMBDA e : e["ChartDate"] = week)

\* post holds exactly the entries of pre and of new, each as often
HoldsExactly(post, pre, new) ==
    /\ Len(post) = Len(pre) + Len(new)
    /\ \A w \in WeeksIn(post) \cup WeeksIn(pre) \cup WeeksIn(new) :
           SameBag(OfWeek(post, w), OfWeek(pre, w) \o OfWeek(new, w))

\* C1: a non-empty snapshot whose week is already in the store is a no-op:
\* update_json_file returns False and the store is unchanged
C1_DuplicateWeekIsNoOp ==
    [][(RunsUpdateOn(scrape_current_charts(req.page))
        /\ CapturedWeek(req.page) \in WeeksIn(store.data))
       => (store' = store /\ last'.ret = FALSE)]_vars

\* a readable store after a run that found its week already present
C1_Witness ==
    /\ last.log = "already exists"
    /\ last.ret = FALSE
    /\ store.status = "ok"
    /\ Len(store.data) >= 90

\* C2: a snapshot of a new week is rejected, the store untouched, with 89
\* or fewer entries, and accepted and persisted with 90 or more
C2_CompletenessGate ==
    [][(RunsUpdateOn(scrape_current_charts(req.page))
        /\ FilesWork
        /\ CapturedWeek(req.page) \notin WeeksIn(store.data))
       => /\ CapturedRows(req.page) <= 89
               => (store' = store /\ last'.ret = FALSE)
          /\ CapturedRows(req.page) >= 90
               => /\ last'.ret = TRUE
                  /\ store'.status = "ok"
                  /\ CapturedWeek(req.page) \in WeeksIn(store'.data)
                  /\ Len(store'.data) > Len(store.data)]_vars

\* a 90-entry snapshot was accepted into an empty store
C2_Witness ==
    /\ last.log = "added"
    /\ last.ret = TRUE
    /\ store.status = "ok"
    /\ Len(store.data) = 90

\* C3: after an accepted merge the store holds exactly what it held before
\* plus every entry of the snapshot, each once
C3_MergeAddsExactlySnapshot ==
    [][(RunsUpdateOn(scrape_current_charts(req.page)) /\ last'.ret = TRUE)
       => HoldsExactly(store'.data, store.data, scrape_current_charts(req.page))]_vars

\* a second snapshot was merged: a minimal one plus a full one
C3_Witness ==
    /\ last.log = "added"
    /\ store.status = "ok"
    /\ Cardinality(WeeksIn(store.data)) = 2
    /\ Len(store.data) = MinEntries + MaxRows

\* the Chart Date is a week range whose end is a date of the calendar
IsWeekRange(cd) == cd["dash"] /\ cd["em"] \in 1..12 /\ cd["ed"] \in 1..31

\* the end of week range a comes before the end of week range b
EndsBefore(a, b) ==
    \/ a["yr"] < b["yr"]
    \/ a["yr"] = b["yr"] /\ a["em"] < b["em"]
    \/ a["yr"] = b["yr"] /\ a["em"] = b["em"] /\ a["ed"] < b["ed"]

\* the year the first day of a week range lies in
StartYear(cd) == IF cd["sm"] > cd["em"] THEN cd["yr"] - 1 ELSE cd["yr"]

\* the end of week range a comes before the first day of week range b
EndsBeforeStartOf(a, b) ==
    \/ a["yr"] < StartYear(b)
    \/ a["yr"] = StartYear(b) /\ a["em"] < b["sm"]
    \/ a["yr"] = StartYear(b) /\ a["em"] = b["sm"] /\ a["ed"] < b["sd"]

\* no entry of ranged is followed by one whose week ends earlier
Ascending(ranged) ==
    \A i \in 1..(Len(ranged) - 1) :
        ~EndsBefore(ranged[i + 1]["ChartDate"], ranged[i]["ChartDate"])

\* the entries of data that carry a week range, in order
Ranged(data) == SelectSeq(data, LAMBDA e : IsWeekRange(e["ChartDate"]))

\* C4: after an accepted merge the whole Timeline is in ascending order of
\* the end date of each entry's week range
C4_SortedByEndDate ==
    (last.op = "main" /\ last.log = "added") => Ascending(Ranged(store.data))

\* a merge was accepted into a store the creator had left out of order
\* (its source lists May 26 - Jun 1 before May 23 - May 29)
C4_Witness ==
    /\ last.op = "main" /\ last.log = "added"
    /\ store.status = "ok"
    /\ \E i, j \in DOMAIN store.data :
          /\ i < j
          /\ store.data[i]["Name"] = "Csv 1"
          /\ store.data[i]["ChartDate"] = RangeStr(5, 23, 5, 29, 2025)
          /\ store.data[j]["Name"] = "Csv 1"
          /\ store.data[j]["ChartDate"] = RangeStr(5, 26, 6, 1, 2025)

\* C5: for each pair of adjacent distinct weeks in Timeline order, the end
\* of the earlier strictly precedes the end of the later and the two
\* ranges do not overlap
C5_ChronologicalInvariant ==
    store.status = "ok" =>
        \A i \in 1..(Len(store.data) - 1) :
            LET a == store.data[i]["ChartDate"]
                b == store.data[i + 1]["ChartDate"]
            IN  (a # b /\ IsWeekRange(a) /\ IsWeekRange(b))
                    => (EndsBefore(a, b) /\ EndsBeforeStartOf(a, b))

\* the ranks of the entries are pairwise distinct
RanksDistinct(entries) ==
    Cardinality({entries[i]["Rank"] : i \in DOMAIN entries}) = Len(entries)

\* C6: in every store reachable by live merges, cross-source merges and
\* corrective passes, the ranks of the entries of each week are pairwise
\* distinct
C6_RanksUniquePerWeek ==
    store.status = "ok" =>
        \A w \in WeeksIn(store.data) : RanksDistinct(OfWeek(store.data, w))

\* C9: a write that fails part-way commits nothing partial: the store
\* afterwards is the whole Timeline of before or the whole merged one,
\* and the run reports failure
C9_NoPartialWrite ==
    [][(req.op \in {"update", "main"} /\ req' = NoReq /\ req.io = "dump_fails")
       => /\ store'.status # "partial"
          /\ last'.ret = FALSE
          /\ (req.op = "main" /\ last'.log = "error") => last'.exit # 0]_vars

\* the (Name, Chart Date, Rank) triple of an entry
Triple(e) == <<e["Name"], e["ChartDate"], e["Rank"]>>

\* no two entries of data have the same triple
NoDuplicateTriples(data) ==
    \A i, j \in DOMAIN data : Triple(data[i]) = Triple(data[j]) => i = j

\* the positions of all_data that hold the first occurrence of a triple
FirstOccurrences(all_data) ==
    {i \in DOMAIN all_data :
        \A j \in 1..(i - 1) : Triple(all_data[j]) # Triple(all_data[i])}

\* the entries of all_data at the positions K, in order
RECURSIVE AtPositions(_, _)
AtPositions(all_data, K) ==
    IF K = {} THEN <<>>
    ELSE LET m == CHOOSE x \in K : \A y \in K : y <= x
         IN  Append(AtPositions(all_data, K \ {m}), all_data[m])

\* C7: the result of a cross-source merge has no two entries with the same
\* (Name, Chart Date, Rank); what is kept are first occurrences, in input
\* order
C7_MergeRemovesDuplicates ==
    merge.op # "none" =>
        /\ NoDuplicateTriples(merge.out)
        /\ merge.out = AtPositions(merge.a \o merge.b,
                                   FirstOccurrences(merge.a \o merge.b))

\* the final store lacks the week of one of the two invocations
LostUpdate ==
    \E p \in Procs : CapturedWeek(loc[p].page) \notin WeeksIn(store.data)

\* the final store is whole and holds the week of each invocation
NothingLost ==
    /\ store.status = "ok"
    /\ \A p \in Procs : CapturedWeek(loc[p].page) \in WeeksIn(store.data)

\* both invocations loaded the store before either had written its week
LoadedBeforeEitherWrote ==
    \A p, q \in Procs :
        p # q => CapturedWeek(loc[p].page) \notin WeeksIn(loc[q].existing_data)

BothSucceeded ==
    /\ \A p \in Procs : pc[p] = "done" /\ loc[p].ret
    /\ \A p, q \in Procs : p # q => CapturedWeek(loc[p].page) # CapturedWeek(loc[q].page)

\* C8: when two invocations for two new weeks both load the store before
\* either writes it, both report success and the final store lacks the
\* entries of one of them; when one runs after the other, nothing is lost
C8_LostUpdateIffInterleaved ==
    BothSucceeded =>
        IF LoadedBeforeEitherWrote THEN LostUpdate ELSE NothingLost

\* both reported success, the store is whole, and a week is missing
C8_Witness ==
    /\ BothSucceeded
    /\ LoadedBeforeEitherWrote
    /\ store.status = "ok"
    /\ LostUpdate

\* C11: a snapshot of a new week below the completeness threshold is
\* merged when the caller forces it, and rejected only when it does not
C11_ForcedOverrideMerges ==
    [][(RunsUpdateOn(scrape_current_charts(req.page))
        /\ FilesWork
        /\ CapturedWeek(req.page) \notin WeeksIn(store.data)
        /\ CapturedRows(req.page) < 90)
       => IF req.force
          THEN /\ last'.ret = TRUE
               /\ store'.status = "ok"
               /\ CapturedWeek(req.page) \in WeeksIn(store'.data)
          ELSE store' = store /\ last'.ret = FALSE]_vars

\* the rows of the CSV collected on one day, in order
CollectedOn(rows, date) == SelectSeq(rows, LAMBDA r : r["ChartDate"] = date)

\* entries holds one entry per row, with the row's name and rank, in order
SameShows(entries, rows) ==
    /\ Len(entries) = Len(rows)
    /\ \A i \in DOMAIN entries :
           /\ entries[i]["Name"] = rows[i]["Name"]
           /\ entries[i]["Rank"] = rows[i]["Rank"]

\* C12: the collection dates June 2 and June 7, 2025 resolve to the same
\* week May 26 - Jun 1, 2025, and the converted entries of that week come
\* from one of the two collections only (the one of June 7)
C12_MappedWeekHoldsOneSnapshot ==
    call.op = "convert" =>
        /\ date_mapping(DateStr(6, 2, 2025)) = RangeStr(5, 26, 6, 1, 2025)
        /\ date_mapping(DateStr(6, 7, 2025)) = RangeStr(5, 26, 6, 1, 2025)
        /\ \/ OfWeek(call.out, RangeStr(5, 26, 6, 1, 2025)) = <<>>
           \/ SameShows(OfWeek(call.out, RangeStr(5, 26, 6, 1, 2025)),
                        CollectedOn(call.arg.rows, DateStr(6, 7, 2025)))

\* a CSV with rows of both collections was converted, and the week holds
\* the show collected on June 7
C12_Witness ==
    /\ call.op = "convert"
    /\ CollectedOn(call.arg.rows, DateStr(6, 2, 2025)) # <<>>
    /\ Len(OfWeek(call.out, RangeStr(5, 26, 6, 1, 2025))) = 1
    /\ OfWeek(call.out, RangeStr(5, 26, 6, 1, 2025))[1]["Name"] = "Show B"
    /\ \E i \in DOMAIN call.arg.rows :
           /\ call.arg.rows[i]["Name"] = "Show A"
           /\ call.arg.rows[i]["ChartDate"] = DateStr(6, 2, 2025)

\* C13: the gap analyzer reports as missing exactly the weeks of the
\* caller's expected list that no Timeline entry carries, in the order of
\* that list
C13_GapAnalyzerReportsMissing ==
    call.op = "analyze_complete_timeline" =>
        call.out.missing_weeks =
            SelectSeq(call.arg.expected,
                      LAMBDA w : w \notin WeeksIn(call.arg.data))

\* the number of entries of data under the Chart Date week
CountOf(data, week) ==
    Cardinality({i \in DOMAIN data : data[i]["ChartDate"] = week})

\* the one level the claim gives a week of n entries
LevelOf(n) ==
    CASE n >= 90 -> "full"
      [] n >= 50 /\ n < 90 -> "partial"
      [] n < 50 -> "poor"

\* C14: every week of the Timeline is classified by the number of its
\* entries: full from 90, partial from 50 to 89, poor below 50
C14_CompletenessClasses ==
    call.op \in {"analyze_complete_timeline", "generate_data_report"} =>
        \A w \in WeeksIn(call.arg.data) \ {NoLine} :
            /\ w \in DOMAIN call.out.status
            /\ call.out.status[w] = LevelOf(CountOf(call.arg.data, w))

\* a Timeline with a full week of 90, a partial week of 89 and a poor
\* week of 49 was analyzed
C14_Witness ==
    /\ call.op = "analyze_complete_timeline"
    /\ call.out.ran
    /\ CountOf(call.arg.data, RangeStr(5, 5, 5, 11, 2025)) = 90
    /\ CountOf(call.arg.data, RangeStr(5, 12, 5, 18, 2025)) = 89
    /\ CountOf(call.arg.data, RangeStr(5, 23, 5, 29, 2025)) = 49
    /\ call.out.status[RangeStr(5, 5, 5, 11, 2025)] = "full"
    /\ call.out.status[RangeStr(5, 23, 5, 29, 2025)] = "poor"

\* the number of days from Monday, January 1, 2024 to the day m d of yr
DaysSince2024(m, d, yr) == ToOrdinal(yr, m, d) - ToOrdinal(2024, 1, 1)

\* C15: the reference day is the most recent Monday on or before today,
\* and its week range is the 7 days that end on it: the range ends on the
\* reference day and starts 6 days earlier, across months and years
C15_ComputedWeekIsSevenDays ==
    call.op = "get_week_range" =>
        LET ref == call.out.chart_date
            range == call.out.range
            today == call.arg - ToOrdinal(2024, 1, 1)
            monday == DaysSince2024(ref["em"], ref["ed"], ref["yr"])
        IN  /\ ~ref["dash"]
            /\ monday % 7 = 0
            /\ monday <= today /\ today - monday <= 6
            /\ range["dash"]
            /\ <<range["em"], range["ed"], range["yr"]>>
                   = <<ref["em"], ref["ed"], ref["yr"]>>
            /\ DaysSince2024(range["sm"], range["sd"], StartYear(range))
                   = monday - 6

\* the week of a day early in January 2026 starts in December 2025
C15_Witness ==
    /\ call.op = "get_week_range"
    /\ call.arg = ToOrdinal(2026, 1, 7)
    /\ call.out.chart_date = DateStr(1, 5, 2026)
    /\ call.out.range = RangeStr(12, 30, 1, 5, 2026)

\* the line is a week range: a month and a day, a dash, a month and a
\* day, and a year
IsWeekRangePattern(line) ==
    /\ line["dash"]
    /\ line["sm"] \in 1..12 /\ line["sd"] \in 1..31
    /\ line["em"] \in 1..12 /\ line["ed"] \in 1..31

\* the week range of computed mode for the day of the capture
ComputedRange(page) == get_week_range(get_current_week_date(page.today))

\* C16: a week-range pattern in the captured text, of any year, is the
\* Chart Date of every entry of the snapshot; the computed range is used
\* only when the text has no such pattern
C16_ScrapedRangeOfAnyYear ==
    [][(req.op \in {"update", "main"} /\ req' = NoReq)
       => \A i \in DOMAIN scrape_current_charts(req.page) :
              LET used == scrape_current_charts(req.page)[i]["ChartDate"]
              IN  /\ IsWeekRangePattern(req.page.date_line)
                         => used = req.page.date_line
                  /\ (used = ComputedRange(req.page) /\ used # req.page.date_line)
                         => ~IsWeekRangePattern(req.page.date_line)]_vars

\* no name strategy of the parser recovers a name from the record
Unrecoverable(parser, record) ==
    /\ record["title"] \in {None, ""}
    /\ parser = "scrape_wayback_chart" => record["text"] = ""

\* the positions of the page the parser looks at
Located(parser, elements) ==
    IF parser = "scrape_wayback_chart"
    THEN IF Len(elements) > 10
         THEN {i \in DOMAIN elements : i <= 100} ELSE {}
    ELSE DOMAIN elements

\* C17: every entry a parser emits has a Name that is not empty, and a
\* record from which no name is recovered gives the entry "Unknown
\* Podcast {rank}" with the entry's own rank
C17_NameNeverEmpty ==
    call.op \in Parsers =>
        /\ \A k \in DOMAIN call.out :
               call.out[k]["Name"] \notin {"", None}
        /\ call.op \in {"scrape_current_charts", "scrape_wayback_chart"} =>
               \A i \in Located(call.op, Elements(call.arg)) :
                   Unrecoverable(call.op, Elements(call.arg)[i]) =>
                       \E k \in DOMAIN call.out :
                           /\ call.out[k]["Rank"] = ToString(i)
                           /\ call.out[k]["Name"] =
                                  "Unknown Podcast " \o call.out[k]["Rank"]

\* the second element of a page of more than 10 had neither title nor
\* text, and its entry is called Unknown Podcast 2
C17_Witness ==
    /\ call.op = "scrape_wayback_chart"
    /\ Len(call.arg.records) = 2
    /\ call.arg.records[2]["title"] = None
    /\ call.arg.records[2]["text"] = ""
    /\ Len(call.out) > 10
    /\ call.out[2]["Name"] = "Unknown Podcast 2"
    /\ call.out[2]["Rank"] = "2"

\* the value is an absolute URL: it starts with a scheme
HasScheme(url) ==
    \/ Len(url) >= 7 /\ SubSeq(url, 1, 7) = "http://"
    \/ Len(url) >= 8 /\ SubSeq(url, 1, 8) = "https://"

\* C18: in every entry a parser emits, Channel URL and Thumbnail URL are
\* each the empty string or an absolute URL, never null and never a
\* relative path
C18_UrlsAbsoluteOrEmpty ==
    call.op \in Parsers =>
        \A k \in DOMAIN call.out :
            \A url \in {call.out[k]["ChannelURL"], call.out[k]["ThumbnailURL"]} :
                url = "" \/ (url # None /\ HasScheme(url))

\* C19: every entry a parser emits has a Rank between 1 and 100,
\* however many records the page holds
C19_RankInRange ==
    call.op \in Parsers =>
        \A k \in DOMAIN call.out :
            call.out[k]["Rank"] \in {ToString(n) : n \in 1..100}

\* the rank text of the record is a number
HasExplicitRank(record) ==
    record["rank_text"] \in {ToString(n) : n \in 0..200}

\* C20: for each located record in document order the rank is the
\* record's explicit rank when it carries one, and its 1-based position
\* when the rank is absent or not numeric
C20_RankExplicitElsePosition ==
    (/\ call.op \in {"scrape_current_charts", "scrape_wayback_with_playwright",
                      "scrape_wayback_with_selectors"}
     /\ Len(Elements(call.arg)) <= 100
     /\ \A i \in DOMAIN Elements(call.arg) : Elements(call.arg)[i]["title"] = "Show X")
    => /\ Len(call.out) = Len(Elements(call.arg))
       /\ \A i \in DOMAIN call.out :
              call.out[i]["Rank"] =
                  IF HasExplicitRank(Elements(call.arg)[i])
                  THEN Elements(call.arg)[i]["rank_text"]
                  ELSE ToString(i)

\* C10: a capture with zero entries ends main with exit status 1 and the
\* store not written; update_json_file on the empty list returns False
\* and leaves the store alone
C10_ZeroEntriesIsFailure ==
    [][(req.op \in {"update", "main"} /\ CapturedRows(req.page) = 0)
       => /\ store' = store
          /\ last'.ret = FALSE
          /\ req.op = "main" => last'.exit = 1]_vars

\* main has ended with status 1 over a store that holds a week
C10_Witness ==
    /\ last.op = "main"
    /\ last.exit = 1
    /\ store.status = "ok"
    /\ Len(store.data) >= 90

\* extraction of the record throws: int() of a rank text that is no number
\* (the row try of scrape_current_charts has nothing in it that throws
\* past the try of each field)
ExtractionThrows(parser, record) ==
    /\ parser = "scrape_wayback_with_playwright"
    /\ record["rank_text"] \notin ({None} \cup {ToString(n) : n \in 0..200})

\* the number of located records whose extraction throws
ThrownIn(parser, elements) ==
    Cardinality({i \in DOMAIN elements : ExtractionThrows(parser, elements[i])})

\* the parser emits an entry for the record when extraction does not throw
EmitsFor(parser, record) ==
    /\ ~ExtractionThrows(parser, record)
    /\ parser = "scrape_wayback_with_playwright" =>
           (record["title"] # None /\ Len(record["title"]) >= 2)

\* the page on which every record that throws is a record without title
\* element instead, which the parser passes over without an exception
WithoutThrow(parser, page) ==
    [page EXCEPT !.records =
        [i \in DOMAIN page.records |->
            IF ExtractionThrows(parser, page.records[i])
            THEN [page.records[i] EXCEPT !["rank_text"] = None,
                                         !["title"] = None]
            ELSE page.records[i]]]

\* the record that throws is skipped and every other located record is
\* emitted, under the rank of its position when it carries none
ThrowSkipsOneRecord ==
    /\ Len(call.out) =
           Cardinality({i \in DOMAIN Elements(call.arg) :
                           EmitsFor(call.op, Elements(call.arg)[i])})
    /\ \A i \in DOMAIN Elements(call.arg) :
           (EmitsFor(call.op, Elements(call.arg)[i])
            /\ Elements(call.arg)[i]["rank_text"] = None)
               => \E k \in DOMAIN call.out : call.out[k]["Rank"] = ToString(i)

\* C21: a record whose extraction throws is skipped, every other located
\* record is still emitted, and the number of skipped records is retained
\* with the snapshot: two pages that leave the same snapshot behind had
\* the same number of records that threw
C21_SkippedRecordsCounted ==
    call.op \in {"scrape_current_charts", "scrape_wayback_with_playwright"} =>
        /\ ThrowSkipsOneRecord
        /\ \A other \in {WithoutThrow(call.op, call.arg)} :
               ParsePage(call.op, Elements(other), ParsedWeek) = call.out
                   => ThrownIn(call.op, Elements(other))
                          = ThrownIn(call.op, Elements(call.arg))

\* the number of name strategies of an extractor
StrategiesOf(op) ==
    IF op = "extract_podcast_info_flexible" THEN Len(text_selectors)
    ELSE IF op = "extract_podcast_from_object" THEN Len(title_keys)
    ELSE Len(name_selectors)

\* what the strategy came upon is a result the extractor can use: a
\* string that is not empty, and of 3 to 99 characters where the
\* extractor asks for a reasonable length
UsableBy(op, y) ==
    /\ y["type"] = "str"
    /\ y["str"] # ""
    /\ op = "extract_podcast_info_flexible"
           => (Len(y["str"]) >= 3 /\ Len(y["str"]) <= 99)
    /\ op = "extract_podcast_from_object" => Len(y["str"]) >= 3

\* the name strategies that give a usable result, by their place
UsableStrategies(op, found) ==
    {i \in 1..StrategiesOf(op) : UsableBy(op, found[i])}

\* the name the extractor has returned; None when it returned no podcast
ReturnedName ==
    IF call.out = <<>> THEN None
    ELSE IF call.op = "scrape_current_charts" THEN call.out[1]["Name"]
    ELSE IF call.op = "extract_podcast_info_flexible" THEN call.out[1]["name"]
    ELSE call.out[1]["title"]

\* what the extractor returns when no name strategy gives a result
WhenAllFail ==
    IF call.op = "scrape_current_charts" THEN "Unknown Podcast 1"
    ELSE IF call.op = "extract_podcast_info_flexible"
    THEN (IF call.arg.text = "" THEN "Unknown Podcast 1"
          ELSE IF Len(call.arg.text) <= 100 THEN call.arg.text
          ELSE SubSeq(call.arg.text, 1, 97) \o "...")
    ELSE None

\* the name is that of the first strategy, in the listed order, that gives
\* a usable result, whatever the strategies before it came upon; the
\* fallback when none does
FirstUsableIsReturned ==
    LET usable == UsableStrategies(call.op, call.arg.found)
    IN  IF usable = {} THEN ReturnedName = WhenAllFail
        ELSE ReturnedName =
                 call.arg.found[CHOOSE i \in usable : \A j \in usable : i <= j]["str"]

\* C22: the name strategies are tried in their listed order and the first
\* usable result is returned; a strategy that is present but gives nothing
\* usable does not stop the later ones, and the fallback is returned when
\* all fail
C22_FirstUsableStrategyWins ==
    call.op \in {"scrape_current_charts", "extract_podcast_info_flexible",
                 "extract_podcast_from_object"}
        => FirstUsableIsReturned

\* the same of the two extractors that work on located elements
SelectorsInOrder ==
    call.op \in {"scrape_current_charts", "extract_podcast_info_flexible"}
        => FirstUsableIsReturned

\* the one candidate name the strategies came upon: the first strategy
\* found a text and no other strategy found anything
OnlyCandidate ==
    /\ call.arg.found[1]["type"] = "str"
    /\ \A i \in 2..Len(call.arg.found) : call.arg.found[i]["type"] = "absent"

\* the name of the entry that was emitted; None when none was
EmittedName ==
    IF call.out = <<>> THEN None
    ELSE IF call.op = "scrape_wayback_chart" THEN call.out[1]["Name"]
    ELSE call.out[1]["title"]

\* C23: a candidate name is accepted exactly when it has 2 to 100
\* characters: one of 2 or of 100 characters is emitted, and one of 0, of
\* 1 or of more than 100 characters is not emitted as it is
C23_NamePlausibleFrom2To100 ==
    (call.op \in {"scrape_wayback_chart", "extract_podcast_from_object"}
     /\ OnlyCandidate)
        => LET candidate == call.arg.found[1]["str"]
           IN  (Len(candidate) >= 2 /\ Len(candidate) <= 100)
                   <=> EmittedName = candidate

\* the one week a corrective pass rewrites, and the week it writes
CorrectedWeek(op) ==
    IF op = "fix" THEN RangeStr(5, 26, 6, 1, 2025) ELSE RangeStr(5, 30, 6, 5, 2025)

CorrectionOf(op) ==
    IF op = "fix" THEN RangeStr(5, 30, 6, 5, 2025) ELSE RangeStr(6, 2, 6, 8, 2025)

\* post is pre with the Chart Date of the entries of week from set to
\* week to, and nothing else changed
OnlyWeekRewritten(post, pre, from, to) ==
    /\ Len(post) = Len(pre)
    /\ \A i \in DOMAIN pre :
           /\ post[i]["Name"] = pre[i]["Name"]
           /\ post[i]["Rank"] = pre[i]["Rank"]
           /\ post[i]["ChannelURL"] = pre[i]["ChannelURL"]
           /\ post[i]["ThumbnailURL"] = pre[i]["ThumbnailURL"]
           /\ DOMAIN post[i] = DOMAIN pre[i]
           /\ pre[i]["ChartDate"] # from => post[i] = pre[i]
           /\ pre[i]["ChartDate"] = from => post[i]["ChartDate"] = to

\* C24: a corrective pass changes only the Chart Date of the entries whose
\* week is a key of its correction table: the number of entries, their
\* order and their other fields stay, and the entries of other weeks are
\* unchanged entirely
C24_CorrectivePassFrame ==
    [][(req = NoReq /\ last'.op \in {"fix", "fix_v2"} /\ last'.log = "corrected")
       => /\ store'.status = "ok"
          /\ OnlyWeekRewritten(store'.data, store.data,
                               CorrectedWeek(last'.op), CorrectionOf(last'.op))]_vars

\* the first pass has rewritten the entries of May 26 - Jun 1 in a store
\* that holds another week as well
C24_Witness ==
    /\ last.op = "fix" /\ last.log = "corrected"
    /\ store.status = "ok"
    /\ RangeStr(5, 30, 6, 5, 2025) \in WeeksIn(store.data)
    /\ RangeStr(5, 26, 6, 1, 2025) \notin WeeksIn(store.data)
    /\ Cardinality(WeeksIn(store.data)) >= 2

\* C25: the Timeline the complete-timeline creator has saved is in
\* ascending order of week end date, whatever the two source files hold
\* and in whatever order
C25_CreatorSavesSorted ==
    (last.op = "create" /\ last.log = "saved" /\ store.status = "ok")
        => Ascending(Ranged(store.data))

\* C26: the distinct weeks the analyzers and the corrective pass list are
\* all there, each once, and in chronological order: a week whose range
\* ends earlier comes before a week whose range ends later
C26_WeeksListedChronologically ==
    (call.op \in {"analyze_complete_timeline", "analyze_data_gaps",
                  "fix_chronological_order"}
     /\ call.out.ran)
        => /\ {call.out.weeks[i] : i \in DOMAIN call.out.weeks} \ {NoLine}
                  = WeeksIn(call.arg.data) \ {NoLine}
           /\ \A i, j \in DOMAIN call.out.weeks :
                  call.out.weeks[i] = call.out.weeks[j] => i = j
           /\ \A i, j \in DOMAIN call.out.weeks :
                  EndsBefore(call.out.weeks[i], call.out.weeks[j]) => i < j

\* the response gives rise to another request while retries are left
Retried(response) == response \in {"403", "429", "exception"}

\* what the call has done so far is what the responses ask for: at most
\* 4 requests; a request was followed by another only after a rate limit
\* or an exception; the call has returned once a response was 200 or
\* another status, or once the 4th request failed; it returns the body
\* for 200 and None otherwise
RetriesBounded ==
    call.op = "make_api_request" =>
        LET sent == call.out.sent
        IN  /\ sent <= 4
            /\ \A k \in 1..(sent - 1) : Retried(call.arg[k])
            /\ call.out.returned <=>
                   (sent >= 1 /\ (~Retried(call.arg[sent]) \/ sent = 4))
            /\ call.out.returned =>
                   (call.out.ret = IF call.arg[sent] = "200" THEN "json" ELSE None)

\* C27: every call of make_api_request ends after at most MAX_RETRIES + 1
\* = 4 HTTP requests, whatever the responses: a 200 returns its body at
\* once, another status than 200, 403 and 429 returns None without a
\* retry, and None is returned when the retries are used up
C27_ApiRequestTerminates ==
    /\ []RetriesBounded
    /\ (call.op = "make_api_request")
           ~> (call.op = "make_api_request" /\ call.out.returned)

\* the call has returned None after 4 requests that were all rate
\* limited or failed
C27_Witness ==
    /\ call.op = "make_api_request"
    /\ call.out.returned
    /\ call.out.sent = 4
    /\ call.out.ret = None
    /\ call.arg[1] = "429" /\ call.arg[2] = "exception"
    /\ call.arg[3] = "403" /\ call.arg[4] = "429"

\* C28: the re-sort of an accepted merge is stable: the entries of each
\* week are in the store in the order they had in the list before the
\* sort, the stored entries followed by those of the snapshot, so that
\* the snapshot stays in the order of its capture and the earlier weeks
\* in their stored order
C28_ResortIsStable ==
    [][(RunsUpdateOn(scrape_current_charts(req.page)) /\ last'.ret = TRUE)
       => \A w \in WeeksIn(store'.data) \cup WeeksIn(store.data) :
              OfWeek(store'.data, w) =
                  OfWeek(store.data, w) \o OfWeek(scrape_current_charts(req.page), w)]_vars

\* a snapshot of May 2025 was merged into a store that held a week of
\* 2026: the sort has moved it to the front, in the order of its ranks
C28_Witness ==
    /\ last.log = "added"
    /\ store.status = "ok"
    /\ Len(store.data) = MinEntries + MaxRows
    /\ store.data[1]["ChartDate"] = RangeStr(5, 23, 5, 29, 2025)
    /\ \A i \in 1..MinEntries : store.data[i]["Rank"] = ToString(i)
    /\ store.data[MinEntries + 1]["ChartDate"] = RangeStr(12, 30, 1, 5, 2026)
    /\ store.data[MinEntries + 1]["Rank"] = "1"

\* C29: no call of update_json_file adds an entry whose Chart Date was in
\* the store before the call: a call that reports success leaves every
\* week the store held with the entries it had
C29_NoEntryAddedToStoredWeek ==
    [][(call'.op = "update_json_file" /\ call'.out.ret = TRUE)
       => \A w \in WeeksIn(store.data) :
              OfWeek(store'.data, w) = OfWeek(store.data, w)]_vars

\* the same of the calls whose entries all carry one week
OneWeekListsAddNoDuplicate ==
    [][(call'.op = "update_json_file" /\ call'.out.ret = TRUE
        /\ Cardinality(WeeksIn(call'.arg.new_data)) = 1)
       => \A w \in WeeksIn(store.data) :
              OfWeek(store'.data, w) = OfWeek(store.data, w)]_vars

\* the (Name, Chart Date, Rank) triples of the entries of a list
TriplesOf(data) == {Triple(data[i]) : i \in DOMAIN data}

\* C30: a cross-source merge discards an entry only when an earlier kept
\* entry has the same Name, Chart Date and Rank: every triple of the two
\* input lists is a triple of the result, also when the fields hold the
\* "_" that joins the key
C30_DedupComparesFieldByField ==
    merge.op # "none" => TriplesOf(merge.out) = TriplesOf(merge.a \o merge.b)

\* the same of the entries that hold no "_"
PlainEntriesAreKept ==
    (merge.op # "none"
     /\ \A i \in DOMAIN (merge.a \o merge.b) :
            (merge.a \o merge.b)[i] \in MergeEntries)
        => TriplesOf(merge.out) = TriplesOf(merge.a \o merge.b)

====
